---- MODULE Spec2Model ----
(***************************************************************************)
(* logx: the asynchronous file sink (DefaultLogger), the level filter and  *)
(* the logging facade that feeds it.                                       *)
(*                                                                         *)
(* Producers call Info/Error; a call that passes the level filter is       *)
(* encoded and handed to DefaultLogger.Write, whose select either sends on *)
(* the buffered channel or observes the closed done channel.  One worker   *)
(* goroutine receives from the channel and writes to the file.  Closers    *)
(* call DefaultLogger.Close, which runs its body under sync.Once.          *)
(***************************************************************************)
EXTENDS Integers, Sequences, FiniteSets, TLC

\* The producers make at most MaxMsgs logging calls between them.
MaxMsgs == 3

\* Capacity of l.channel.  The source fixes it at 100 (default_logger.go:28);
\* the model keeps the name and scales the value down so that "queue full"
\* is reached within MaxMsgs calls.
bufferSize == 2

Producers == {"p1", "p2"}
Closers == {"c1", "c2"}

InfoLevel == 0
ErrorLevel == 1
Levels == {InfoLevel, ErrorLevel}

\* The facade function each producer calls: p1 calls Error, p2 calls Info.
LevelOf(p) == IF p = "p1" THEN ErrorLevel ELSE InfoLevel

levelInfo == "info"
levelError == "error"

\* Go's nil error, and the errors the sink can return.
nil == "nil"
ErrLogFileClosed == "error: log file closed"
ErrSync == "sync failed"
ErrClose == "close failed"

\* No byte sequence (an unset local).
NoData == <<>>

VARIABLES
    logLevel,     \* logs.go: var logLevel uint32
    ppc,          \* producer position: "idle" | "write"
    pdata,        \* the data argument of the producer's Write call
    sent,         \* number of logging calls the producer has made
    wret,         \* (n, err) returned by the producer's last Write
    late,         \* the producer's Write call in progress began after a Close returned
    channel,      \* l.channel: pending byte sequences, oldest first
    done,         \* l.done is closed
    waitGroup,    \* l.waitGroup counter
    wpc,          \* worker position: "select" | "write" | "exited"
    wevent,       \* the worker's local event
    file,         \* byte sequences written through l.fp, in order
    fpSync,       \* outcome of l.fp.Sync(): "none" until called
    fpClose,      \* outcome of l.fp.Close(): "none" until called
    syncCalls,    \* number of l.fp.Sync() calls
    closeCalls,   \* number of l.fp.Close() calls
    fallback,     \* what log.Println received, in order
    onceDone,     \* l.closeOnce has run its function
    onceM,        \* holder of l.closeOnce's mutex, or nil
    cpc,          \* closer position
    cerr,         \* Close's local err
    doneFires,    \* number of close(l.done) executions
    waits,        \* number of completed l.waitGroup.Wait() calls
    executor,     \* the closer whose Do ran the function, or nil
    calledAt,     \* how far the close sequence was when the closer called Close
    enq,          \* every byte sequence sent on l.channel, in send order
    enqAtClose,   \* Len(enq) when Close was first called
    setupDone,    \* logs.go: setupOnce has run its function
    setupM,       \* holder of setupOnce's mutex, or nil
    lpc,          \* loader position inside Load
    lc,           \* the LogConf argument of the loader's Load call
    lerr,         \* Load's named result err
    loads,        \* number of Load calls made
    lexec,        \* the loader whose Do ran the function, or nil
    conf,         \* logs.go: var conf *LogConf
    encoding,     \* logs.go: var encoding uint32
    withColor,    \* logs.go: var withColor
    plainEncodingSep, \* logs.go: var plainEncodingSep
    timeFormat,   \* logs.go: var timeFormat
    slot,         \* writer.writer: the active writer, or nil
    rwW,          \* writer.lock: the holder of the write lock, or nil
    rwR,          \* writer.lock: the holders of the read lock
    rpc,          \* caller position inside its atomicWriter method
    rcall,        \* the package function the caller is in
    rop,          \* the atomicWriter method the caller is in
    rarg,         \* the method's argument v
    rlocal,       \* the value the method read from w.writer
    rret,         \* the value the method returned
    calls,        \* number of package-function calls made
    gw,           \* results of the getWriter calls, in return order
    hist,         \* every assignment to w.writer, in order
    swapRet,      \* results of the Swap calls, in return order
    updates,      \* number of SetWriter, Swap and Close calls made
    detachedAt,   \* Len(enq) when the file writer left the slot, or -1
    encIn,        \* the arguments and settings of the latest output call
    encOut,       \* what that call wrote and what it logged
    written,      \* what the io.Writer handed to output accepted, in order
    outputs,      \* number of output calls made
    npc,          \* position inside NewFileLogger
    nconf,        \* NewFileLogger's copy *conf
    nlevel0,      \* the threshold when NewFileLogger was called
    nerr,         \* the error NewFileLogger returned
    news,         \* number of NewFileLogger calls made
    loadErr       \* the result of setupWriter inside Load: "none" until it ran

vars == <<logLevel, ppc, pdata, sent, wret, late, channel, done, waitGroup, wpc,
          wevent, file, fpSync, fpClose, syncCalls, closeCalls, fallback,
          onceDone, onceM, cpc, cerr, doneFires, waits, executor, calledAt,
          enq, enqAtClose, setupDone, setupM, lpc, lc, lerr, loads, lexec,
          conf, encoding, withColor, plainEncodingSep, timeFormat, slot,
          rwW, rwR, rpc, rcall, rop, rarg, rlocal, rret, calls, gw, hist,
          swapRet, updates, detachedAt, encIn, encOut, written, outputs,
          npc, nconf, nlevel0, nerr, news, loadErr>>

producerVars == <<ppc, pdata, sent, wret, late>>
workerVars == <<wpc, wevent>>
fpVars == <<file, fpSync, fpClose, syncCalls, closeCalls>>
closerVars == <<onceDone, onceM, cpc, cerr, doneFires, waits, executor,
                calledAt, enqAtClose>>

loadVars == <<setupDone, setupM, lpc, lc, lerr, loads, lexec>>
settingVars == <<conf, encoding, withColor, plainEncodingSep, timeFormat>>
lockVars == <<rwW, rwR>>
callerVars == <<rpc, rcall, rop, rarg, rlocal, rret, calls, gw, swapRet,
                updates>>
regVars == <<slot, lockVars, callerVars, hist, detachedAt>>
encVars == <<encIn, encOut, written, outputs>>
nflVars == <<npc, nconf, nlevel0, nerr, news>>
globalVars == <<loadVars, settingVars, regVars, encVars, nflVars, loadErr>>

Range(s) == {s[i] : i \in 1..Len(s)}
Count(s, x) == Cardinality({i \in 1..Len(s) : s[i] = x})

----------------------------------------------------------------------------
(* Level filter and encoder                                                *)

\* Mutant: the filter lets every level through.
shallLogAlways(level) == TRUE
\* shallLog: atomic.LoadUint32(&logLevel) <= level
shallLog(level) == logLevel <= level

\* The message of producer p's n-th call, as a string of tokens.
Msg(p, n) == <<p, n>>

\* errorTextSync: fmt.Sprintf("%s\n%s", msg, string(debug.Stack()))
errorText(msg) == msg \o <<"\n", "stack">>

\* writeJson: json.Marshal(entry) followed by '\n'.  Timestamp and caller
\* come from the clock and the call stack and are left out of the entry.
writeJson(level, val) == <<[level |-> level, content |-> val], "\n">>

\* output(writer, level, val) in the default (JSON) encoding.
output(level, val) == writeJson(level, val)

\* The bytes a facade call of the given level hands to the sink.
Encoded(p, n, level) ==
    IF level = ErrorLevel
    THEN output(levelError, errorText(Msg(p, n)))
    ELSE output(levelInfo, Msg(p, n))

AllData == {Encoded(p, n, LevelOf(p)) : p \in Producers, n \in 1..MaxMsgs}

----------------------------------------------------------------------------
(* Package state of logs.go                                                *)

\* The loaders make at most MaxLoads calls of Load between them.
MaxLoads == 3

Loaders == {"l1", "l2"}

jsonEncodingType == 0
plainEncodingType == 1
plainEncoding == "plain"
fileMode == "file"

\* new(LogConf): every field has its zero value.
ZeroConf ==
    [Mode |-> "", Encoding |-> "", PlainEncodingSep |-> "", WithColor |-> FALSE,
     TimeFormat |-> "", Level |-> ""]

\* The configurations the loaders pass to Load.
Confs ==
    { ZeroConf,
      [Mode |-> "console", Encoding |-> "plain", PlainEncodingSep |-> "|",
       WithColor |-> TRUE, TimeFormat |-> "15:04:05", Level |-> "error"],
      [Mode |-> "file", Encoding |-> "json", PlainEncodingSep |-> "",
       WithColor |-> FALSE, TimeFormat |-> "", Level |-> "info"],
      [Mode |-> "file", Encoding |-> "plain", PlainEncodingSep |-> ";",
       WithColor |-> FALSE, TimeFormat |-> "", Level |-> "error"] }

\* The initial values of the package variables (logs.go, var block).
LoadInit ==
    /\ setupDone = FALSE
    /\ setupM = nil
    /\ lpc = [l \in Loaders |-> "idle"]
    /\ lc = [l \in Loaders |-> ZeroConf]
    /\ lerr = [l \in Loaders |-> nil]
    /\ loads = 0
    /\ lexec = nil
    /\ conf = ZeroConf
    /\ encoding = jsonEncodingType
    /\ withColor = FALSE
    /\ plainEncodingSep = "\t"
    /\ timeFormat = "2006-01-02T15:04:05.000Z07:00"
    /\ loadErr = "none"

\* No NewFileLogger call has been made.
NflInit ==
    /\ npc = "idle"
    /\ nconf = ZeroConf
    /\ nlevel0 = InfoLevel
    /\ nerr = nil
    /\ news = 0

\* The goroutines that call the package functions getWriter, SetWriter,
\* Close and the registry's Load and Swap.  One that calls Close goes on
\* into the Close of the writer it detached, as a closer of the sink.
Callers == Closers

\* The arguments of output before any call.
NoCall == [val |-> "none"]
NoEffect == [written |-> <<>>, logged |-> <<>>]

\* No output call has been made.
EncInit ==
    /\ encIn = NoCall
    /\ encOut = NoEffect
    /\ written = <<>>
    /\ outputs = 0

\* Nobody holds the registry lock and no caller has made a call.
CallersIdle ==
    /\ rwW = nil
    /\ rwR = {}
    /\ rpc = [t \in Callers |-> "idle"]
    /\ rcall = [t \in Callers |-> "none"]
    /\ rop = [t \in Callers |-> "none"]
    /\ rarg = [t \in Callers |-> nil]
    /\ rlocal = [t \in Callers |-> nil]
    /\ rret = [t \in Callers |-> nil]
    /\ calls = 0
    /\ gw = <<>>
    /\ swapRet = <<>>
    /\ updates = 0
    /\ detachedAt = -1

\* writer = new(atomicWriter): the slot is empty.
RegInit ==
    /\ slot = nil
    /\ hist = <<>>
    /\ CallersIdle

----------------------------------------------------------------------------
\* NewLogger: the sink after construction, and the zero level.
SinkInit ==
    /\ logLevel = InfoLevel
    /\ ppc = [p \in Producers |-> "idle"]
    /\ pdata = [p \in Producers |-> NoData]
    /\ sent = [p \in Producers |-> 0]
    /\ wret = [p \in Producers |-> <<0, nil>>]
    /\ late = [p \in Producers |-> FALSE]
    /\ channel = <<>>
    /\ done = FALSE
    /\ waitGroup = 1
    /\ wpc = "select"
    /\ wevent = NoData
    /\ file = <<>>
    /\ fpSync = "none"
    /\ fpClose = "none"
    /\ syncCalls = 0
    /\ closeCalls = 0
    /\ fallback = <<>>
    /\ onceDone = FALSE
    /\ onceM = nil
    /\ cpc = [c \in Closers |-> "idle"]
    /\ cerr = [c \in Closers |-> nil]
    /\ doneFires = 0
    /\ waits = 0
    /\ executor = nil
    /\ calledAt = [c \in Closers |-> "unfinished"]
    /\ enq = <<>>
    /\ enqAtClose = 0

Init == SinkInit /\ LoadInit /\ RegInit /\ EncInit /\ NflInit

----------------------------------------------------------------------------
(* Level filter                                                            *)

\* SetLevel: atomic.StoreUint32(&logLevel, level)
SetLevel(level) ==
    /\ logLevel # level
    /\ logLevel' = level
    /\ UNCHANGED globalVars
    /\ UNCHANGED <<producerVars, channel, done, waitGroup, workerVars, fpVars,
                   fallback, closerVars, enq>>

----------------------------------------------------------------------------
(* Facade: Info / Error on the file-backed writer                          *)

Calls == LET Sum[S \in SUBSET Producers] ==
                 IF S = {} THEN 0
                 ELSE LET q == CHOOSE q \in S : TRUE
                      IN  sent[q] + Sum[S \ {q}]
         IN  Sum[Producers]

\* infoTextSync / errorTextSync: the call is dropped unless shallLog(level);
\* otherwise the record is encoded and the producer enters l.Write(data).
LogCall(p, level) ==
    /\ ppc[p] = "idle"
    /\ Calls < MaxMsgs
    /\ sent' = [sent EXCEPT ![p] = @ + 1]
    /\ IF shallLog(level)
       THEN /\ ppc' = [ppc EXCEPT ![p] = "write"]
            /\ pdata' = [pdata EXCEPT ![p] = Encoded(p, sent[p] + 1, level)]
            /\ late' = [late EXCEPT ![p] = \E c \in Closers : cpc[c] = "returned"]
       ELSE UNCHANGED <<ppc, pdata, late>>
    /\ UNCHANGED globalVars
    /\ UNCHANGED <<logLevel, wret, channel, done, waitGroup, workerVars,
                   fpVars, fallback, closerVars, enq>>

----------------------------------------------------------------------------
(* DefaultLogger.Write                                                     *)

\* Mutant: a channel whose buffer never fills.
CanSendAlways(ch) == TRUE
\* A send on the buffered channel can proceed while the buffer has room.
CanSend(ch) == Len(ch) < bufferSize

\* Mutant: the sent item overtakes the pending ones.
SendFront(ch, d) == <<d>> \o ch
\* The channel after a send: the item joins the back of the buffer.
Send(ch, d) == Append(ch, d)

\* select case l.channel <- data: return len(data), nil
WriteSend(p) ==
    /\ ppc[p] = "write"
    /\ CanSend(channel)
    /\ channel' = Send(channel, pdata[p])
    /\ enq' = Append(enq, pdata[p])
    /\ wret' = [wret EXCEPT ![p] = <<Len(pdata[p]), nil>>]
    /\ ppc' = [ppc EXCEPT ![p] = "idle"]
    /\ pdata' = [pdata EXCEPT ![p] = NoData]
    /\ late' = [late EXCEPT ![p] = FALSE]
    /\ UNCHANGED globalVars
    /\ UNCHANGED <<logLevel, sent, done, waitGroup, workerVars, fpVars,
                   fallback, closerVars>>

\* Mutant: the done signal is a single message that the worker consumes,
\* not a closed channel every receiver observes.
WriteClosedOneShot(p) ==
    /\ ppc[p] = "write"
    /\ done /\ wpc # "exited"
    /\ fallback' = Append(fallback, pdata[p])
    /\ wret' = [wret EXCEPT ![p] = <<0, ErrLogFileClosed>>]
    /\ ppc' = [ppc EXCEPT ![p] = "idle"]
    /\ pdata' = [pdata EXCEPT ![p] = NoData]
    /\ late' = [late EXCEPT ![p] = FALSE]
    /\ UNCHANGED globalVars
    /\ UNCHANGED <<logLevel, sent, channel, done, waitGroup, workerVars,
                   fpVars, closerVars, enq>>
\* select case <-l.done: log.Println(string(data)); return 0, ErrLogFileClosed
WriteClosed(p) ==
    /\ ppc[p] = "write"
    /\ done
    /\ fallback' = Append(fallback, pdata[p])
    /\ wret' = [wret EXCEPT ![p] = <<0, ErrLogFileClosed>>]
    /\ ppc' = [ppc EXCEPT ![p] = "idle"]
    /\ pdata' = [pdata EXCEPT ![p] = NoData]
    /\ late' = [late EXCEPT ![p] = FALSE]
    /\ UNCHANGED globalVars
    /\ UNCHANGED <<logLevel, sent, channel, done, waitGroup, workerVars,
                   fpVars, closerVars, enq>>

\* The select of Write: either ready case may be taken.
Write(p) == WriteSend(p) \/ WriteClosed(p)

----------------------------------------------------------------------------
(* startWorker: the drain goroutine                                        *)

\* select case event := <-l.channel
WorkerRecv ==
    /\ wpc = "select"
    /\ channel # <<>>
    /\ wevent' = Head(channel)
    /\ channel' = Tail(channel)
    /\ wpc' = "write"
    /\ UNCHANGED globalVars
    /\ UNCHANGED <<logLevel, producerVars, done, waitGroup, fpVars, fallback,
                   closerVars, enq>>

\* Mutant: the event is written twice.
fpWriteTwice(f, v) == Append(Append(f, v), v)
\* l.fp.Write(v) on an open handle appends v.
fpWrite(f, v) == Append(f, v)

\* l.write(event): on a closed handle the write fails and the error is
\* discarded.
WorkerWrite ==
    /\ wpc = "write"
    /\ file' = IF fpClose = "none" THEN fpWrite(file, wevent) ELSE file
    /\ wevent' = NoData
    /\ wpc' = "select"
    /\ UNCHANGED globalVars
    /\ UNCHANGED <<logLevel, producerVars, channel, done, waitGroup, fpSync,
                   fpClose, syncCalls, closeCalls, fallback, closerVars, enq>>

\* Mutant: the worker returns without l.waitGroup.Done().
WorkerDoneNoSignal ==
    /\ wpc = "select"
    /\ done
    /\ wpc' = "exited"
    /\ UNCHANGED globalVars
    /\ UNCHANGED <<logLevel, producerVars, channel, done, waitGroup, wevent,
                   fpVars, fallback, closerVars, enq>>
\* select case <-l.done: return, then the deferred l.waitGroup.Done()
WorkerDone ==
    /\ wpc = "select"
    /\ done
    /\ wpc' = "exited"
    /\ waitGroup' = waitGroup - 1
    /\ UNCHANGED globalVars
    /\ UNCHANGED <<logLevel, producerVars, channel, done, wevent, fpVars,
                   fallback, closerVars, enq>>

Worker == WorkerRecv \/ WorkerWrite \/ WorkerDone

----------------------------------------------------------------------------
(* DefaultLogger.Close, run under l.closeOnce (sync.Once)                  *)

\* How far the close sequence is: "unfinished" until the once flag is
\* stored, then "finished", and "returned" once the call that ran it has
\* returned.
SequenceState ==
    IF ~onceDone THEN "unfinished"
    ELSE IF cpc[executor] = "returned" THEN "returned"
    ELSE "finished"

\* Mutant: Do runs the function on every call.
OnceAlwaysRuns(flag) == TRUE
\* sync.Once runs the function only while its done flag is unset.
OnceRuns(flag) == ~flag

\* Close is called; Do's fast path loads the once flag.  A caller that sees
\* it set returns the zero value of its local err.
CloseCall(c) ==
    /\ cpc[c] = "idle"
    /\ calledAt' = [calledAt EXCEPT ![c] = SequenceState]
    /\ enqAtClose' = IF \A d \in Closers : cpc[d] = "idle"
                     THEN Len(enq) ELSE enqAtClose
    /\ cpc' = [cpc EXCEPT ![c] = IF OnceRuns(onceDone) THEN "lock" ELSE "ret"]
    /\ UNCHANGED globalVars
    /\ UNCHANGED <<logLevel, producerVars, channel, done, waitGroup,
                   workerVars, fpVars, fallback, onceDone, onceM, cerr,
                   doneFires, waits, executor, enq>>

\* doSlow: lock the once mutex and load the flag again.  A caller that now
\* sees it set unlocks and returns; the other enters the function.
OnceLock(c) ==
    /\ cpc[c] = "lock"
    /\ onceM = nil
    /\ IF OnceRuns(onceDone)
       THEN /\ onceM' = c
            /\ executor' = c
            /\ cpc' = [cpc EXCEPT ![c] = "closeDone"]
       ELSE /\ cpc' = [cpc EXCEPT ![c] = "ret"]
            /\ UNCHANGED <<onceM, executor>>
    /\ UNCHANGED globalVars
    /\ UNCHANGED <<logLevel, producerVars, channel, done, waitGroup,
                   workerVars, fpVars, fallback, onceDone, cerr, doneFires,
                   waits, calledAt, enq, enqAtClose>>

\* close(l.done)
CloseDone(c) ==
    /\ cpc[c] = "closeDone"
    /\ done' = TRUE
    /\ doneFires' = doneFires + 1
    /\ cpc' = [cpc EXCEPT ![c] = "wait"]
    /\ UNCHANGED globalVars
    /\ UNCHANGED <<logLevel, producerVars, channel, waitGroup, workerVars,
                   fpVars, fallback, onceDone, onceM, cerr, waits, executor,
                   calledAt, enq, enqAtClose>>

\* Mutant: Close does not wait for the worker.
WaitWorkerNoWait(c) ==
    /\ cpc[c] = "wait"
    /\ waits' = waits + 1
    /\ cpc' = [cpc EXCEPT ![c] = "sync"]
    /\ UNCHANGED globalVars
    /\ UNCHANGED <<logLevel, producerVars, channel, done, waitGroup,
                   workerVars, fpVars, fallback, onceDone, onceM, cerr,
                   doneFires, executor, calledAt, enq, enqAtClose>>
\* l.waitGroup.Wait() returns once the counter is zero.
WaitWorker(c) ==
    /\ cpc[c] = "wait"
    /\ waitGroup = 0
    /\ waits' = waits + 1
    /\ cpc' = [cpc EXCEPT ![c] = "sync"]
    /\ UNCHANGED globalVars
    /\ UNCHANGED <<logLevel, producerVars, channel, done, waitGroup,
                   workerVars, fpVars, fallback, onceDone, onceM, cerr,
                   doneFires, executor, calledAt, enq, enqAtClose>>

\* Mutant: a failed Sync does not end the function.
SyncFileGoesOn(c, r) ==
    /\ cpc[c] = "sync"
    /\ fpSync' = r
    /\ syncCalls' = syncCalls + 1
    /\ cerr' = [cerr EXCEPT ![c] = r]
    /\ cpc' = [cpc EXCEPT ![c] = "fclose"]
    /\ UNCHANGED globalVars
    /\ UNCHANGED <<logLevel, producerVars, channel, done, waitGroup,
                   workerVars, file, fpClose, closeCalls, fallback, doneFires,
                   waits, executor, calledAt, enq, enqAtClose, onceDone, onceM>>
\* if err = l.fp.Sync(); err != nil { return }: on failure the function
\* returns, the once flag is stored and the once mutex released.
SyncFile(c, r) ==
    /\ cpc[c] = "sync"
    /\ fpSync' = r
    /\ syncCalls' = syncCalls + 1
    /\ cerr' = [cerr EXCEPT ![c] = r]
    /\ IF r # nil
       THEN /\ onceDone' = TRUE
            /\ onceM' = nil
            /\ cpc' = [cpc EXCEPT ![c] = "ret"]
       ELSE /\ cpc' = [cpc EXCEPT ![c] = "fclose"]
            /\ UNCHANGED <<onceDone, onceM>>
    /\ UNCHANGED globalVars
    /\ UNCHANGED <<logLevel, producerVars, channel, done, waitGroup,
                   workerVars, file, fpClose, closeCalls, fallback, doneFires,
                   waits, executor, calledAt, enq, enqAtClose>>

\* Mutant: the result of l.fp.Close() is not assigned to err.
CloseFileDropErr(c, r) ==
    /\ cpc[c] = "fclose"
    /\ fpClose' = r
    /\ closeCalls' = closeCalls + 1
    /\ onceDone' = TRUE
    /\ onceM' = nil
    /\ cpc' = [cpc EXCEPT ![c] = "ret"]
    /\ UNCHANGED globalVars
    /\ UNCHANGED <<logLevel, producerVars, channel, done, waitGroup,
                   workerVars, file, fpSync, syncCalls, fallback, cerr,
                   doneFires, waits, executor, calledAt, enq, enqAtClose>>
\* err = l.fp.Close(); the function returns, the once flag is stored and
\* the once mutex released.
CloseFile(c, r) ==
    /\ cpc[c] = "fclose"
    /\ fpClose' = r
    /\ closeCalls' = closeCalls + 1
    /\ cerr' = [cerr EXCEPT ![c] = r]
    /\ onceDone' = TRUE
    /\ onceM' = nil
    /\ cpc' = [cpc EXCEPT ![c] = "ret"]
    /\ UNCHANGED globalVars
    /\ UNCHANGED <<logLevel, producerVars, channel, done, waitGroup,
                   workerVars, file, fpSync, syncCalls, fallback, doneFires,
                   waits, executor, calledAt, enq, enqAtClose>>

\* return err
CloseReturn(c) ==
    /\ cpc[c] = "ret"
    /\ cpc' = [cpc EXCEPT ![c] = "returned"]
    /\ UNCHANGED globalVars
    /\ UNCHANGED <<logLevel, producerVars, channel, done, waitGroup,
                   workerVars, fpVars, fallback, onceDone, onceM, cerr,
                   doneFires, waits, executor, calledAt, enq, enqAtClose>>

\* The steps of a Close call after the call itself.
CloseStep(c) ==
    \/ OnceLock(c)
    \/ CloseDone(c)
    \/ WaitWorker(c)
    \/ \E r \in {nil, ErrSync} : SyncFile(c, r)
    \/ \E r \in {nil, ErrClose} : CloseFile(c, r)
    \/ CloseReturn(c)

----------------------------------------------------------------------------
(* atomicWriter: the active-writer slot under its sync.RWMutex             *)

\* The writer newFileWriter builds on the DefaultLogger.
FileWriter == "file"

\* newConsoleWriter(): a new defaultWriter on every call; the caller t and
\* the number n of calls made when it is built tell it from the others.
newConsoleWriter(t, n) == "console@" \o t \o "#" \o ToString(n)

\* Mutant: Lock succeeds whoever holds the lock.
CanLockAlways(w, r) == TRUE
\* w.lock.Lock() proceeds when nobody holds the lock.
CanLock(w, r) == w = nil /\ r = {}

\* w.lock.RLock() proceeds when nobody holds the write lock.
CanRLock(w) == w = nil

\* The callers make at most MaxCalls package-function calls between them.
MaxCalls == 3

sinkVars == <<logLevel, producerVars, channel, done, waitGroup, workerVars,
              fpVars, fallback, closerVars, enq>>

\* The writer passed to the n-th call: a new one every time.
MockWriter(n) == "mock" \o ToString(n)

\* The atomicWriter method a package function calls first: getWriter and
\* the registry's Load call Load, SetWriter calls Store, Close and the
\* registry's Swap call Swap.
FirstOp(call) ==
    CASE call \in {"getWriter", "Load"} -> "Load"
      [] call = "SetWriter" -> "Store"
      [] call \in {"Swap", "Close"} -> "Swap"

\* A package function is called.  Close passes nil to Swap.
RegCall(t, call) ==
    /\ rpc[t] = "idle"
    /\ calls < MaxCalls
    /\ calls' = calls + 1
    /\ rcall' = [rcall EXCEPT ![t] = call]
    /\ rop' = [rop EXCEPT ![t] = FirstOp(call)]
    /\ rarg' = [rarg EXCEPT ![t] = IF call \in {"SetWriter", "Swap"}
                                   THEN MockWriter(calls + 1) ELSE nil]
    /\ updates' = IF call \in {"SetWriter", "Swap", "Close"}
                  THEN updates + 1 ELSE updates
    /\ rpc' = [rpc EXCEPT ![t] = "lock"]
    /\ UNCHANGED <<slot, lockVars, rlocal, rret, gw, swapRet, hist,
                   detachedAt>>
    /\ UNCHANGED <<loadVars, settingVars, sinkVars, encVars, nflVars, loadErr>>

\* w.lock.RLock() in Load, w.lock.Lock() in Store, StoreIfNil and Swap.
RegLock(t) ==
    /\ rpc[t] = "lock"
    /\ IF rop[t] = "Load"
       THEN /\ CanRLock(rwW)
            /\ rwR' = rwR \cup {t}
            /\ UNCHANGED rwW
       ELSE /\ CanLock(rwW, rwR)
            /\ rwW' = t
            /\ UNCHANGED rwR
    /\ rpc' = [rpc EXCEPT ![t] = IF rop[t] = "Store" THEN "write" ELSE "read"]
    /\ UNCHANGED <<slot, rcall, rop, rarg, rlocal, rret, calls, gw, swapRet,
                   updates, hist, detachedAt>>
    /\ UNCHANGED <<loadVars, settingVars, sinkVars, encVars, nflVars, loadErr>>

\* Mutant: StoreIfNil stores whatever the slot holds.
StoreIfNilAlways(cur) == TRUE
\* StoreIfNil: if w.writer == nil
StoreIfNilWrites(cur) == cur = nil

\* The method reads w.writer: Load's result, Swap's old, StoreIfNil's test.
RegRead(t) ==
    /\ rpc[t] = "read"
    /\ rlocal' = [rlocal EXCEPT ![t] = slot]
    /\ rpc' = [rpc EXCEPT ![t] =
                 IF rop[t] = "Load" THEN "unlock"
                 ELSE IF rop[t] = "Swap" THEN "write"
                 ELSE IF StoreIfNilWrites(slot) THEN "write" ELSE "unlock"]
    /\ UNCHANGED <<slot, lockVars, rcall, rop, rarg, rret, calls, gw, swapRet,
                   updates, hist, detachedAt>>
    /\ UNCHANGED <<loadVars, settingVars, sinkVars, encVars, nflVars, loadErr>>

\* w.writer = v
RegWrite(t) ==
    /\ rpc[t] = "write"
    /\ slot' = rarg[t]
    /\ hist' = Append(hist, [by |-> t, op |-> rop[t], old |-> slot,
                             new |-> rarg[t]])
    /\ detachedAt' = IF slot = FileWriter /\ detachedAt = -1
                     THEN Len(enq) ELSE detachedAt
    /\ rpc' = [rpc EXCEPT ![t] = "unlock"]
    /\ UNCHANGED <<lockVars, rcall, rop, rarg, rlocal, rret, calls, gw,
                   swapRet, updates>>
    /\ UNCHANGED <<loadVars, settingVars, sinkVars, encVars, nflVars, loadErr>>

\* Mutant: every caller closes the writer its Swap returned.
ClosesOldAlways(call) == TRUE
\* Only Close closes the writer its Swap returned (logs.go, Close).
ClosesOld(call) == call = "Close"

\* The value the method returns: Load and Swap what they read, StoreIfNil
\* the writer now in the slot.
RegResult(t) ==
    IF rop[t] \in {"Load", "Swap"} THEN rlocal[t]
    ELSE IF rop[t] = "StoreIfNil" THEN slot
    ELSE nil

\* The method returns and its deferred unlock runs; the package function
\* goes on: getWriter calls StoreIfNil(newConsoleWriter()) when Load
\* returned nil, Close closes the writer Swap returned.
RegUnlock(t) ==
    /\ rpc[t] = "unlock"
    /\ rwW' = IF rwW = t THEN nil ELSE rwW
    /\ rwR' = rwR \ {t}
    /\ rret' = [rret EXCEPT ![t] = RegResult(t)]
    /\ swapRet' = IF rop[t] = "Swap" THEN Append(swapRet, RegResult(t))
                  ELSE swapRet
    /\ IF rcall[t] = "getWriter" /\ rop[t] = "Load" /\ RegResult(t) = nil
       THEN /\ rop' = [rop EXCEPT ![t] = "StoreIfNil"]
            /\ rarg' = [rarg EXCEPT ![t] = newConsoleWriter(t, calls)]
            /\ rpc' = [rpc EXCEPT ![t] = "lock"]
            /\ UNCHANGED gw
       ELSE /\ gw' = IF rcall[t] = "getWriter" THEN Append(gw, RegResult(t))
                     ELSE gw
            /\ rpc' = [rpc EXCEPT ![t] =
                         IF /\ rop[t] = "Swap"
                            /\ ClosesOld(rcall[t])
                            /\ RegResult(t) = FileWriter
                         THEN "closeOld" ELSE "idle"]
            /\ UNCHANGED <<rop, rarg>>
    /\ UNCHANGED <<slot, rcall, rlocal, calls, updates, hist, detachedAt>>
    /\ UNCHANGED <<loadVars, settingVars, sinkVars, encVars, nflVars, loadErr>>

\* Close: w.(io.Closer).Close() on the detached file writer is the Close of
\* the DefaultLogger.
CloseOld(t) ==
    /\ rpc[t] = "closeOld"
    /\ CloseCall(t)
----------------------------------------------------------------------------
(* Load, run under setupOnce (sync.Once)                                   *)

ErrOpen == "open failed"

\* setupLogLevel: SetLevel for "info" and "error", nothing otherwise.
setupLogLevel(c, cur) ==
    IF c.Level = levelInfo THEN InfoLevel
    ELSE IF c.Level = levelError THEN ErrorLevel
    ELSE cur

\* setupTimeFormat: only a non-empty format is taken.
setupTimeFormat(c, cur) == IF c.TimeFormat # "" THEN c.TimeFormat ELSE cur

\* setupPlainEncodingSep: only a non-empty separator is taken.
setupPlainEncodingSep(c, cur) ==
    IF c.PlainEncodingSep # "" THEN c.PlainEncodingSep ELSE cur

\* setupWithColor: only true is taken.
setupWithColor(c, cur) == IF c.WithColor THEN c.WithColor ELSE cur

\* setupEncoding: plain for "plain", JSON for everything else.
setupEncoding(c) ==
    IF c.Encoding = plainEncoding THEN plainEncodingType ELSE jsonEncodingType

\* Mutant: Load runs its function on every call.
LoadAlwaysRuns(flag) == TRUE
\* setupOnce.Do runs the function only while the once flag is unset.
LoadRuns(flag) == ~flag

\* Load(c) is called; Do's fast path loads the once flag.  A caller that
\* sees it set returns its zero err.
LoadCall(l, c) ==
    /\ lpc[l] \in {"idle", "returned"}
    /\ loads < MaxLoads
    /\ loads' = loads + 1
    /\ lc' = [lc EXCEPT ![l] = c]
    /\ lerr' = [lerr EXCEPT ![l] = nil]
    /\ lpc' = [lpc EXCEPT ![l] = IF LoadRuns(setupDone) THEN "lock" ELSE "ret"]
    /\ UNCHANGED <<setupDone, setupM, lexec, settingVars, regVars>>
    /\ UNCHANGED <<logLevel, producerVars, channel, done, waitGroup,
                   workerVars, fpVars, fallback, closerVars, enq>>
    /\ UNCHANGED <<encVars, nflVars, loadErr>>

\* doSlow: lock the once mutex and load the flag again.
LoadLock(l) ==
    /\ lpc[l] = "lock"
    /\ setupM = nil
    /\ IF LoadRuns(setupDone)
       THEN /\ setupM' = l
            /\ lexec' = l
            /\ lpc' = [lpc EXCEPT ![l] = "level"]
       ELSE /\ lpc' = [lpc EXCEPT ![l] = "ret"]
            /\ UNCHANGED <<setupM, lexec>>
    /\ UNCHANGED <<setupDone, lc, lerr, loads, settingVars, regVars>>
    /\ UNCHANGED <<logLevel, producerVars, channel, done, waitGroup,
                   workerVars, fpVars, fallback, closerVars, enq>>
    /\ UNCHANGED <<encVars, nflVars, loadErr>>

\* conf = &c; setupLogLevel(c); setupPath(c) changes only its own copy of c.
LoadLevel(l) ==
    /\ lpc[l] = "level"
    /\ conf' = lc[l]
    /\ logLevel' = setupLogLevel(lc[l], logLevel)
    /\ lpc' = [lpc EXCEPT ![l] = "format"]
    /\ UNCHANGED <<setupDone, setupM, lc, lerr, loads, lexec, encoding,
                   withColor, plainEncodingSep, timeFormat, regVars>>
    /\ UNCHANGED <<producerVars, channel, done, waitGroup, workerVars, fpVars,
                   fallback, closerVars, enq>>
    /\ UNCHANGED <<encVars, nflVars, loadErr>>

\* setupTimeFormat(c); setupPlainEncodingSep(c); setupWithColor(c)
LoadFormat(l) ==
    /\ lpc[l] = "format"
    /\ timeFormat' = setupTimeFormat(lc[l], timeFormat)
    /\ plainEncodingSep' = setupPlainEncodingSep(lc[l], plainEncodingSep)
    /\ withColor' = setupWithColor(lc[l], withColor)
    /\ lpc' = [lpc EXCEPT ![l] = "encoding"]
    /\ UNCHANGED <<setupDone, setupM, lc, lerr, loads, lexec, conf, encoding,
                   regVars>>
    /\ UNCHANGED <<logLevel, producerVars, channel, done, waitGroup,
                   workerVars, fpVars, fallback, closerVars, enq>>
    /\ UNCHANGED <<encVars, nflVars, loadErr>>

\* setupEncoding(c)
LoadEncoding(l) ==
    /\ lpc[l] = "encoding"
    /\ encoding' = setupEncoding(lc[l])
    /\ lpc' = [lpc EXCEPT ![l] = "writer"]
    /\ UNCHANGED <<setupDone, setupM, lc, lerr, loads, lexec, conf, withColor,
                   plainEncodingSep, timeFormat, regVars>>
    /\ UNCHANGED <<logLevel, producerVars, channel, done, waitGroup,
                   workerVars, fpVars, fallback, closerVars, enq>>
    /\ UNCHANGED <<encVars, nflVars, loadErr>>

\* Mutant: when the file cannot be opened a console writer is set instead.
LoadWriterConsoleOnError(l, r) ==
    /\ lpc[l] = "writer"
    /\ IF lc[l].Mode = fileMode
       THEN /\ logLevel' = setupLogLevel(lc[l], logLevel)
            /\ lerr' = [lerr EXCEPT ![l] = r]
            /\ IF r = nil
               THEN /\ CanLock(rwW, rwR)
                    /\ slot' = FileWriter
                    /\ hist' = Append(hist, [by |-> l, op |-> "Store",
                                             old |-> slot,
                                             new |-> FileWriter])
               ELSE /\ CanLock(rwW, rwR)
                    /\ slot' = newConsoleWriter(l, loads)
                    /\ hist' = Append(hist, [by |-> l, op |-> "Store",
                                             old |-> slot,
                                             new |-> newConsoleWriter(l, loads)])
       ELSE /\ r = nil
            /\ CanLock(rwW, rwR)
            /\ slot' = newConsoleWriter(l, loads)
            /\ hist' = Append(hist, [by |-> l, op |-> "Store", old |-> slot,
                                     new |-> newConsoleWriter(l, loads)])
            /\ UNCHANGED <<logLevel, lerr>>
    /\ lpc' = [lpc EXCEPT ![l] = "once"]
    /\ UNCHANGED <<setupDone, setupM, lc, loads, lexec, settingVars,
                   lockVars, callerVars, detachedAt>>
    /\ UNCHANGED <<producerVars, channel, done, waitGroup, workerVars, fpVars,
                   fallback, closerVars, enq>>
    /\ loadErr' = r
    /\ UNCHANGED <<encVars, nflVars>>
\* err = setupWriter(c).  File mode: newFileWriter sets the level again and
\* opens the file; on failure (r) no writer is set and err is returned.
\* Otherwise SetWriter(newConsoleWriter()).
LoadWriter(l, r) ==
    /\ lpc[l] = "writer"
    /\ IF lc[l].Mode = fileMode
       THEN /\ logLevel' = setupLogLevel(lc[l], logLevel)
            /\ lerr' = [lerr EXCEPT ![l] = r]
            /\ IF r = nil
               THEN /\ CanLock(rwW, rwR)
                    /\ slot' = FileWriter
                    /\ hist' = Append(hist, [by |-> l, op |-> "Store",
                                             old |-> slot,
                                             new |-> FileWriter])
               ELSE UNCHANGED <<slot, hist>>
       ELSE /\ r = nil
            /\ CanLock(rwW, rwR)
            /\ slot' = newConsoleWriter(l, loads)
            /\ hist' = Append(hist, [by |-> l, op |-> "Store", old |-> slot,
                                     new |-> newConsoleWriter(l, loads)])
            /\ UNCHANGED <<logLevel, lerr>>
    /\ lpc' = [lpc EXCEPT ![l] = "once"]
    /\ UNCHANGED <<setupDone, setupM, lc, loads, lexec, settingVars,
                   lockVars, callerVars, detachedAt>>
    /\ UNCHANGED <<producerVars, channel, done, waitGroup, workerVars, fpVars,
                   fallback, closerVars, enq>>
    /\ loadErr' = r
    /\ UNCHANGED <<encVars, nflVars>>

\* Do's deferred store of the once flag and unlock.
LoadOnceDone(l) ==
    /\ lpc[l] = "once"
    /\ setupDone' = TRUE
    /\ setupM' = nil
    /\ lpc' = [lpc EXCEPT ![l] = "ret"]
    /\ UNCHANGED <<lc, lerr, loads, lexec, settingVars, regVars>>
    /\ UNCHANGED <<logLevel, producerVars, channel, done, waitGroup,
                   workerVars, fpVars, fallback, closerVars, enq>>
    /\ UNCHANGED <<encVars, nflVars, loadErr>>

\* return
LoadReturn(l) ==
    /\ lpc[l] = "ret"
    /\ lpc' = [lpc EXCEPT ![l] = "returned"]
    /\ UNCHANGED <<setupDone, setupM, lc, lerr, loads, lexec, settingVars,
                   regVars>>
    /\ UNCHANGED <<logLevel, producerVars, channel, done, waitGroup,
                   workerVars, fpVars, fallback, closerVars, enq>>
    /\ UNCHANGED <<encVars, nflVars, loadErr>>

----------------------------------------------------------------------------
(* NewFileLogger                                                           *)

\* At most MaxNews calls of NewFileLogger are made.
MaxNews == 2

\* NewFileLogger(filename): conf is never nil (new(LogConf) or Load's &c),
\* so newFileWriter(*conf, filename) is called with a copy of *conf.
NflCall ==
    /\ npc \in {"idle", "returned"}
    /\ news < MaxNews
    /\ news' = news + 1
    /\ nconf' = conf
    /\ nlevel0' = logLevel
    /\ nerr' = nil
    /\ npc' = "level"
    /\ UNCHANGED <<loadVars, settingVars, regVars, encVars, loadErr, sinkVars>>

\* Mutant: newFileWriter without its setupLogLevel(c).
NflLevelNoSet ==
    /\ npc = "level"
    /\ npc' = "open"
    /\ UNCHANGED <<nconf, nlevel0, nerr, news>>
    /\ UNCHANGED <<loadVars, settingVars, regVars, encVars, loadErr, sinkVars>>
\* newFileWriter: setupLogLevel(c), before the file is opened.
NflLevel ==
    /\ npc = "level"
    /\ logLevel' = setupLogLevel(nconf, logLevel)
    /\ npc' = "open"
    /\ UNCHANGED <<nconf, nlevel0, nerr, news>>
    /\ UNCHANGED <<loadVars, settingVars, regVars, encVars, loadErr>>
    /\ UNCHANGED <<producerVars, channel, done, waitGroup, workerVars, fpVars,
                   fallback, closerVars, enq>>

\* createOutput(filePath) returns r; NewFileLogger returns the logger or
\* the error.
NflOpen(r) ==
    /\ npc = "open"
    /\ nerr' = r
    /\ npc' = "returned"
    /\ UNCHANGED <<nconf, nlevel0, news>>
    /\ UNCHANGED <<loadVars, settingVars, regVars, encVars, loadErr, sinkVars>>

----------------------------------------------------------------------------
(* output: the encoder of writer.go                                        *)

\* At most MaxOutputs calls of output are made.
MaxOutputs == 1

\* Payloads by what the type switch and the JSON encoder can tell: a string
\* (which has no methods), or a value with or without Error(), with or
\* without String(), that json can or cannot marshal.
Payloads ==
    {[isString |-> TRUE, isError |-> FALSE, isStringer |-> FALSE,
      marshals |-> TRUE]}
    \cup {[isString |-> FALSE, isError |-> e, isStringer |-> g, marshals |-> m] :
            e \in BOOLEAN, g \in BOOLEAN, m \in BOOLEAN}

\* The io.Writer handed to output, and the error its Write can return.
SomeWriter == "w"
ErrWrite == "write failed"
ErrMarshal == "json: unsupported type"

\* log.Println(err.Error())
ErrLine(e) == <<[error |-> e]>>

\* wrapLevelWithColor: red for error, blue for info.
wrapLevelWithColor(level) ==
    IF level = levelError THEN "red:" \o level
    ELSE IF level = levelInfo THEN "blue:" \o level
    ELSE level

\* writePlainText: timestamp, level, msg and caller joined by the separator.
\* A nil writer sends the line to log.Println; a failed Write (r) is logged.
writePlainText(w, r, sep, level, msg) ==
    LET buf == <<"ts", sep, level, sep, msg, sep, "caller=", "\n">>
    IN  IF w = nil THEN [written |-> <<>>, logged |-> <<buf>>]
        ELSE IF r = nil THEN [written |-> <<buf>>, logged |-> <<>>]
        ELSE [written |-> <<>>, logged |-> <<ErrLine(r)>>]

\* Mutant: the Encode error is ignored.
writePlainValueNoCheck(w, r, sep, level, val) ==
    LET buf == <<"ts", sep, level, sep, [form |-> "json", of |-> val], "\n",
                 sep, "caller=", "\n">>
    IN  IF w = nil THEN [written |-> <<>>, logged |-> <<buf>>]
        ELSE IF r = nil THEN [written |-> <<buf>>, logged |-> <<>>]
        ELSE [written |-> <<>>, logged |-> <<ErrLine(r)>>]
\* writePlainValue: as writePlainText with the JSON encoding of val (Encode
\* ends it with a newline); an Encode error is logged and nothing else is
\* done.
writePlainValue(w, r, sep, level, val) ==
    LET buf == <<"ts", sep, level, sep, [form |-> "json", of |-> val], "\n",
                 sep, "caller=", "\n">>
    IN  IF ~val.marshals THEN [written |-> <<>>, logged |-> <<ErrLine(ErrMarshal)>>]
        ELSE IF w = nil THEN [written |-> <<>>, logged |-> <<buf>>]
        ELSE IF r = nil THEN [written |-> <<buf>>, logged |-> <<>>]
        ELSE [written |-> <<>>, logged |-> <<ErrLine(r)>>]

\* Mutant: the type switch tries fmt.Stringer before error.
writePlainAnyStringerFirst(w, r, color, sep, level, val) ==
    LET lv == IF color THEN wrapLevelWithColor(level) ELSE level
    IN  IF val.isString
        THEN writePlainText(w, r, sep, lv, [form |-> "value", of |-> val])
        ELSE IF val.isStringer
        THEN writePlainText(w, r, sep, lv, [form |-> "String", of |-> val])
        ELSE IF val.isError
        THEN writePlainText(w, r, sep, lv, [form |-> "Error", of |-> val])
        ELSE writePlainValue(w, r, sep, lv, val)
\* writePlainAny: switch v := val.(type) with the cases string, error,
\* fmt.Stringer and default, in this order.
writePlainAny(w, r, color, sep, level, val) ==
    LET lv == IF color THEN wrapLevelWithColor(level) ELSE level
    IN  IF val.isString
        THEN writePlainText(w, r, sep, lv, [form |-> "value", of |-> val])
        ELSE IF val.isError
        THEN writePlainText(w, r, sep, lv, [form |-> "Error", of |-> val])
        ELSE IF val.isStringer
        THEN writePlainText(w, r, sep, lv, [form |-> "String", of |-> val])
        ELSE writePlainValue(w, r, sep, lv, val)

\* writeJson(writer, entry): a Marshal error is logged; a nil writer sends
\* the content to log.Println; otherwise the content and a newline are
\* written and the result of Write is dropped.
writeJsonEntry(w, r, level, val) ==
    LET content == writeJson(level, val)
    IN  IF ~val.marshals THEN [written |-> <<>>, logged |-> <<ErrLine(ErrMarshal)>>]
        ELSE IF w = nil
        THEN [written |-> <<>>,
              logged |-> <<SubSeq(content, 1, Len(content) - 1)>>]
        ELSE [written |-> IF r = nil THEN <<content>> ELSE <<>>,
              logged |-> <<>>]

\* output(writer, level, val): plain or JSON by the encoding setting.
outputAny(w, r, enc, color, sep, level, val) ==
    IF enc = plainEncodingType
    THEN writePlainAny(w, r, color, sep, level, val)
    ELSE writeJsonEntry(w, r, level, val)

\* A call of output with writer w, whose Write returns r.
OutputCall(w, r, level, val) ==
    /\ outputs < MaxOutputs
    /\ w = nil => r = nil
    /\ outputs' = outputs + 1
    /\ encIn' = [val |-> val, level |-> level, w |-> w, r |-> r,
                 enc |-> encoding, color |-> withColor,
                 sep |-> plainEncodingSep]
    /\ encOut' = outputAny(w, r, encoding, withColor, plainEncodingSep,
                           level, val)
    /\ written' = written \o encOut'.written
    /\ fallback' = fallback \o encOut'.logged
    /\ UNCHANGED <<loadVars, settingVars, regVars, nflVars, loadErr>>
    /\ UNCHANGED <<logLevel, producerVars, channel, done, waitGroup,
                   workerVars, fpVars, closerVars, enq>>

----------------------------------------------------------------------------
Next ==
    \/ \E level \in Levels : SetLevel(level)
    \/ \E p \in Producers : LogCall(p, LevelOf(p))
    \/ \E p \in Producers : WriteSend(p)
    \/ \E p \in Producers : WriteClosed(p)
    \/ WorkerRecv
    \/ WorkerWrite
    \/ WorkerDone
    \/ \E c \in Closers : CloseCall(c)
    \/ \E c \in Closers : OnceLock(c)
    \/ \E c \in Closers : CloseDone(c)
    \/ \E c \in Closers : WaitWorker(c)
    \/ \E c \in Closers, r \in {nil, ErrSync} : SyncFile(c, r)
    \/ \E c \in Closers, r \in {nil, ErrClose} : CloseFile(c, r)
    \/ \E c \in Closers : CloseReturn(c)

Spec == Init /\ [][Next]_vars

\* Every goroutine that can take a step is eventually scheduled: a producer
\* inside Write, the worker, and a closer inside Close.  Starting a call is
\* the caller's choice and carries no fairness.
Fairness ==
    /\ \A p \in Producers : WF_vars(Write(p))
    /\ WF_vars(Worker)
    /\ \A c \in Closers : WF_vars(CloseStep(c))

\* The same system with a single Close call.
NextSink ==
    \/ \E level \in Levels : SetLevel(level)
    \/ \E p \in Producers : LogCall(p, LevelOf(p))
    \/ \E p \in Producers : WriteSend(p)
    \/ \E p \in Producers : WriteClosed(p)
    \/ WorkerRecv
    \/ WorkerWrite
    \/ WorkerDone
    \/ CloseCall("c1")
    \/ OnceLock("c1")
    \/ CloseDone("c1")
    \/ WaitWorker("c1")
    \/ \E r \in {nil, ErrSync} : SyncFile("c1", r)
    \/ \E r \in {nil, ErrClose} : CloseFile("c1", r)
    \/ CloseReturn("c1")

SinkSpec == Init /\ [][NextSink]_vars /\ Fairness

\* Concurrent Close calls against one producer that keeps writing.
NextClose ==
    \/ LogCall("p1", LevelOf("p1"))
    \/ WriteSend("p1")
    \/ WriteClosed("p1")
    \/ WorkerRecv
    \/ WorkerWrite
    \/ WorkerDone
    \/ \E c \in Closers : CloseCall(c)
    \/ \E c \in Closers : OnceLock(c)
    \/ \E c \in Closers : CloseDone(c)
    \/ \E c \in Closers : WaitWorker(c)
    \/ \E c \in Closers, r \in {nil, ErrSync} : SyncFile(c, r)
    \/ \E c \in Closers, r \in {nil, ErrClose} : CloseFile(c, r)
    \/ \E c \in Closers : CloseReturn(c)

CloseSpec == Init /\ [][NextClose]_vars /\ Fairness

\* Loaders calling Load, in sequence and concurrently.
NextLoad ==
    \/ \E l \in Loaders, c \in Confs : LoadCall(l, c)
    \/ \E l \in Loaders : LoadLock(l)
    \/ \E l \in Loaders : LoadLevel(l)
    \/ \E l \in Loaders : LoadFormat(l)
    \/ \E l \in Loaders : LoadEncoding(l)
    \/ \E l \in Loaders, r \in {nil, ErrOpen} : LoadWriter(l, r)
    \/ \E l \in Loaders : LoadOnceDone(l)
    \/ \E l \in Loaders : LoadReturn(l)

LoadSpec == Init /\ [][NextLoad]_vars

\* Callers of the package functions over the empty registry.
NextRegistry ==
    \/ \E t \in Callers :
         \E call \in {"getWriter", "SetWriter", "Swap", "Close", "Load"} :
           RegCall(t, call)
    \/ \E t \in Callers : RegLock(t)
    \/ \E t \in Callers : RegRead(t)
    \/ \E t \in Callers : RegWrite(t)
    \/ \E t \in Callers : RegUnlock(t)

RegistrySpec == Init /\ [][NextRegistry]_vars

\* The configuration of a Load in file mode.
FileConf ==
    [Mode |-> "file", Encoding |-> "json", PlainEncodingSep |-> "",
     WithColor |-> FALSE, TimeFormat |-> "", Level |-> "info"]

\* The state after loader l1's Load(FileConf) has returned nil: the file
\* writer on the DefaultLogger is the active writer.
DetachInit ==
    /\ SinkInit
    /\ setupDone = TRUE
    /\ setupM = nil
    /\ lpc = [l \in Loaders |-> IF l = "l1" THEN "returned" ELSE "idle"]
    /\ lc = [l \in Loaders |-> IF l = "l1" THEN FileConf ELSE ZeroConf]
    /\ lerr = [l \in Loaders |-> nil]
    /\ loads = 1
    /\ lexec = "l1"
    /\ conf = FileConf
    /\ encoding = jsonEncodingType
    /\ withColor = FALSE
    /\ plainEncodingSep = "\t"
    /\ timeFormat = "2006-01-02T15:04:05.000Z07:00"
    /\ loadErr = nil
    /\ slot = FileWriter
    /\ hist = <<[by |-> "l1", op |-> "Store", old |-> nil, new |-> FileWriter]>>
    /\ CallersIdle
    /\ EncInit
    /\ NflInit

\* A caller replaces the active file writer while a producer that holds the
\* writer keeps logging to it; when it calls Close it closes the writer its
\* Swap returned.
NextDetach ==
    \/ \E call \in {"SetWriter", "Swap", "Close"} : RegCall("c1", call)
    \/ RegLock("c1")
    \/ RegRead("c1")
    \/ RegWrite("c1")
    \/ RegUnlock("c1")
    \/ CloseOld("c1")
    \/ OnceLock("c1")
    \/ CloseDone("c1")
    \/ WaitWorker("c1")
    \/ \E r \in {nil, ErrSync} : SyncFile("c1", r)
    \/ \E r \in {nil, ErrClose} : CloseFile("c1", r)
    \/ CloseReturn("c1")
    \/ LogCall("p1", LevelOf("p1"))
    \/ WriteSend("p1")
    \/ WriteClosed("p1")
    \/ WorkerRecv
    \/ WorkerWrite
    \/ WorkerDone

DetachSpec == DetachInit /\ [][NextDetach]_vars

\* Calls of output under the settings one Load leaves.
NextEncoder ==
    \/ \E c \in Confs : loads = 0 /\ LoadCall("l1", c)
    \/ LoadLock("l1")
    \/ LoadLevel("l1")
    \/ LoadFormat("l1")
    \/ LoadEncoding("l1")
    \/ \E r \in {nil, ErrOpen} : LoadWriter("l1", r)
    \/ LoadOnceDone("l1")
    \/ LoadReturn("l1")
    \/ \E w \in {nil, SomeWriter}, r \in {nil, ErrWrite},
          level \in {levelInfo, levelError}, val \in Payloads :
         OutputCall(w, r, level, val)

EncoderSpec == Init /\ [][NextEncoder]_vars

\* NewFileLogger calls after Load and SetLevel calls: Load and SetLevel take
\* their steps while no NewFileLogger call is in progress.
NextNewFile ==
    \/ NflCall
    \/ NflLevel
    \/ \E r \in {nil, ErrOpen} : NflOpen(r)
    \/ \E level \in Levels : npc # "level" /\ npc # "open" /\ SetLevel(level)
    \/ \E c \in Confs : npc # "level" /\ npc # "open" /\ LoadCall("l1", c)
    \/ npc # "level" /\ npc # "open" /\ LoadLock("l1")
    \/ npc # "level" /\ npc # "open" /\ LoadLevel("l1")
    \/ npc # "level" /\ npc # "open" /\ LoadFormat("l1")
    \/ npc # "level" /\ npc # "open" /\ LoadEncoding("l1")
    \/ \E r \in {nil, ErrOpen} :
         npc # "level" /\ npc # "open" /\ LoadWriter("l1", r)
    \/ npc # "level" /\ npc # "open" /\ LoadOnceDone("l1")
    \/ npc # "level" /\ npc # "open" /\ LoadReturn("l1")

NewFileSpec == Init /\ [][NextNewFile]_vars

\* Loaders calling Load and a caller getting the active writer to log.
NextLoadThenLog ==
    \/ \E l \in Loaders, c \in Confs : LoadCall(l, c)
    \/ \E l \in Loaders : LoadLock(l)
    \/ \E l \in Loaders : LoadLevel(l)
    \/ \E l \in Loaders : LoadFormat(l)
    \/ \E l \in Loaders : LoadEncoding(l)
    \/ \E l \in Loaders, r \in {nil, ErrOpen} : LoadWriter(l, r)
    \/ \E l \in Loaders : LoadOnceDone(l)
    \/ \E l \in Loaders : LoadReturn(l)
    \/ RegCall("c1", "getWriter")
    \/ RegLock("c1")
    \/ RegRead("c1")
    \/ RegWrite("c1")
    \/ RegUnlock("c1")

LoadThenLogSpec == Init /\ [][NextLoadThenLog]_vars

----------------------------------------------------------------------------
(* Properties                                                              *)

NoCloseReturned == \A c \in Closers : cpc[c] # "returned"
SomeCloseReturned == \E c \in Closers : cpc[c] = "returned"

\* The byte sequences whose Write returned success before Close was first
\* called.
AckedBeforeClose == {enq[i] : i \in 1..enqAtClose}

\* The byte sequences whose Write returned success after Close was first
\* called.
AckedSinceClose == {enq[i] : i \in (enqAtClose + 1)..Len(enq)}

\* C1: at the step by which the first Close call returns, the queue is empty
\* and every byte sequence whose Write returned success before Close was
\* called is in the file.
C1_CloseReturnsDrained ==
    [][(NoCloseReturned /\ ~NoCloseReturned')
         => (/\ channel' = <<>>
             /\ \A d \in AckedBeforeClose' : Count(file', d) >= 1)]_vars

\* C2: a Write call begun after a Close call has returned returns
\* (0, ErrLogFileClosed), puts its data on the fallback stream and leaves
\* the queue as it was, whatever the queue holds.
C2_WriteAfterCloseFails ==
    [][\A p \in Producers :
         (ppc[p] = "write" /\ late[p] /\ ppc'[p] = "idle")
           => (/\ wret'[p] = <<0, ErrLogFileClosed>>
               /\ fallback' = Append(fallback, pdata[p])
               /\ channel' = channel)]_vars

\* C3: once a Close call has returned, every byte sequence whose Write
\* returned and had not returned when Close was first called is in exactly
\* one place, the file or the fallback stream.
C3_LosslessRedirect ==
    SomeCloseReturned =>
        \A d \in AckedSinceClose \cup Range(fallback) :
            Count(file, d) + Count(fallback, d) = 1

\* The close sequence has run to its end.
SequenceFinished ==
    /\ onceDone
    /\ executor # nil
    /\ cpc[executor] \in {"ret", "returned"}

\* C4: however many Close calls are made, the done channel is closed once,
\* the worker is waited for once, the handle is synced and closed at most
\* once, and a Close call returns only after the sequence has finished, by
\* which time each step but the close of the handle has run exactly once.
C4_OneCloseSequence ==
    /\ doneFires <= 1
    /\ waits <= 1
    /\ syncCalls <= 1
    /\ closeCalls <= 1
    /\ \A c \in Closers :
         cpc[c] \in {"ret", "returned"}
           => (/\ SequenceFinished
               /\ doneFires = 1
               /\ waits = 1
               /\ syncCalls = 1)

\* Two Close calls were made before the sequence had finished; one ran it
\* to the end and the other has returned as well.
C4_Witness ==
    /\ \A c \in Closers : cpc[c] = "returned" /\ calledAt[c] = "unfinished"
    /\ closeCalls = 1

\* C5: Close calls that were all made before the close sequence had
\* finished (so that each overlaps the call that runs it) return the same
\* result.
C5_SameResult ==
    \A c1, c2 \in Closers :
        (/\ cpc[c1] = "returned" /\ calledAt[c1] = "unfinished"
         /\ cpc[c2] = "returned" /\ calledAt[c2] = "unfinished")
          => cerr[c1] = cerr[c2]

\* The result of the close sequence: the Sync error if any, else the
\* result of closing the handle.
SequenceResult == IF fpSync # nil THEN fpSync ELSE fpClose

\* C6: the Close call that ran the sequence returns the Sync error if Sync
\* failed, else the result of closing the handle; a Close call made after
\* that call has returned returns nil.
C6_CloseResult ==
    \A c \in Closers :
        cpc[c] = "returned"
          => (/\ c = executor => cerr[c] = SequenceResult
              /\ calledAt[c] = "returned" => cerr[c] = nil)

\* The executing call returned a close failure and a later call returned.
C6_Witness ==
    \E c1, c2 \in Closers :
        /\ c1 = executor /\ cpc[c1] = "returned" /\ cerr[c1] = ErrClose
        /\ cpc[c2] = "returned" /\ calledAt[c2] = "returned" /\ cerr[c2] = nil

\* C7: once the done channel is closed, a producer inside Write returns,
\* whether it was already blocked on a full queue or called afterwards, and
\* whether or not the worker still receives.
C7_WriteReturnsAfterDone ==
    \A p \in Producers : (done /\ ppc[p] = "write") ~> (ppc[p] = "idle")

\* A producer is inside Write with the queue full after the worker exited.
C7_Witness ==
    \E p \in Producers :
        /\ ppc[p] = "write"
        /\ done
        /\ wpc = "exited"
        /\ Len(channel) = bufferSize

\* C8: the queue never holds more than its capacity, and while the done
\* channel is open and the queue is full no step adds an item or lets a
\* producer inside Write return; the only step that changes the queue is
\* the worker's receive.
C8_BoundedQueue ==
    /\ [](Len(channel) \in 0..bufferSize)
    /\ [][(~done /\ Len(channel) = bufferSize)
            => (/\ Len(channel') <= Len(channel)
                /\ \A p \in Producers :
                     ppc[p] = "write" => ppc'[p] = "write"
                /\ channel' # channel
                     => (wpc = "select" /\ wpc' = "write"
                         /\ channel' = Tail(channel)))]_vars

\* A producer is blocked in Write on a full queue of an open sink.
C8_Witness ==
    /\ ~done
    /\ Len(channel) = bufferSize
    /\ \E p \in Producers : ppc[p] = "write"

RECURSIVE IsSubseq(_, _)
\* s can be obtained from t by deleting elements.
IsSubseq(s, t) ==
    IF s = <<>> THEN TRUE
    ELSE IF t = <<>> THEN FALSE
    ELSE IF Head(s) = Head(t) THEN IsSubseq(Tail(s), Tail(t))
    ELSE IsSubseq(s, Tail(t))

\* The producer and the call number of an encoded record.
ProducerOf(d) == d[1].content[1]
CallOf(d) == d[1].content[2]

\* C9: the file is an order-preserving subsequence of the send order, and
\* two records of one producer that are both in the file are there in the
\* order of the producer's calls.
C9_FifoPerProducer ==
    /\ IsSubseq(file, enq)
    /\ \A i, j \in 1..Len(file) :
         (/\ ProducerOf(file[i]) = ProducerOf(file[j])
          /\ CallOf(file[i]) < CallOf(file[j]))
           => i < j

\* Two records of one producer are in the file with a record of the other
\* producer, sent between them, written between them.
C9_Witness ==
    /\ Len(file) = 3
    /\ ProducerOf(file[1]) = ProducerOf(file[3])
    /\ ProducerOf(file[2]) # ProducerOf(file[1])

NoCloseCalled == \A c \in Closers : cpc[c] = "idle"

\* Producer p is not inside Write and every record it has sent on the
\* channel is in the file once.
AllWritten(p) ==
    /\ ppc[p] = "idle"
    /\ \A d \in Range(enq) : ProducerOf(d) = p => Count(file, d) = 1

C11_LevelFilter ==
    [][\A p \in Producers :
         sent'[p] # sent[p]
           => IF LevelOf(p) >= logLevel
              THEN /\ ppc'[p] = "write"
                   /\ pdata'[p] = Encoded(p, sent'[p], LevelOf(p))
              ELSE /\ UNCHANGED <<ppc, pdata, wret, channel, enq, wevent,
                                  file, fallback>>]_vars

\* The threshold is error, the Info caller has called, and its call left no
\* trace: it is not inside Write and nothing was sent, written or printed.
C11_Witness ==
    /\ logLevel = ErrorLevel
    /\ sent["p2"] > 0
    /\ ppc["p2"] = "idle"
    /\ \A d \in Range(enq) \cup Range(fallback) : ProducerOf(d) # "p2"

\* C16: there is one worker until it exits; the file changes only by the
\* worker's write of its event, never in a step of a producer or a closer,
\* and never once a closer has reached Sync: by then the worker has exited.
C16_SingleFileWriter ==
    /\ [](/\ waitGroup \in {0, 1}
          /\ (waitGroup = 1) <=> (wpc # "exited")
          /\ (syncCalls > 0 \/ \E c \in Closers : cpc[c] \in {"sync", "fclose"})
               => wpc = "exited")
    /\ [][file' # file
            => (/\ wpc = "write" /\ wpc' = "select"
                /\ file' = Append(file, wevent)
                /\ syncCalls = 0 /\ closeCalls = 0
                /\ \A c \in Closers : cpc[c] \notin {"sync", "fclose"}
                /\ UNCHANGED <<ppc, cpc>>)]_vars

\* The handle was synced and closed after the worker wrote to the file.
C16_Witness ==
    /\ closeCalls = 1
    /\ Len(file) > 0
    /\ wpc = "exited"

C20_SyncFailureLeavesOpen ==
    /\ fpSync = ErrSync => (closeCalls = 0 /\ fpClose = "none")
    /\ closeCalls > 0 => fpSync = nil
    /\ syncCalls <= 1
    /\ \A c \in Closers :
         (fpSync = ErrSync /\ cpc[c] = "returned")
           => cerr[c] = (IF c = executor THEN ErrSync ELSE nil)

\* Sync failed, and a Close call made after the executing call returned has
\* returned as well.
C20_Witness ==
    /\ fpSync = ErrSync
    /\ \A c \in Closers : cpc[c] = "returned"
    /\ \E c \in Closers : calledAt[c] = "returned"

\* The settings a process has after Load applied configuration c to the
\* initial values of the package variables.
AppliedLevel(c) == setupLogLevel(c, InfoLevel)
AppliedWriters(c, l) ==
    IF c.Mode = fileMode THEN {FileWriter, nil}
    ELSE {newConsoleWriter(l, n) : n \in 1..MaxLoads}

\* C12: Load applies once.  A loader has returned only after the function
\* has finished; only the executing call can return an error (the file of
\* its configuration could not be opened, and no writer is set); once the
\* function has finished the settings and the active writer are those of
\* the executing call's configuration alone (an "error" configuration
\* gives the threshold ErrorLevel whatever a later Load asks for) and no
\* step changes them; and a step of a loader while another loader runs the
\* function changes no setting and not the active writer.
C12_LoadOnce ==
    /\ [](\A l \in Loaders : lpc[l] \in {"ret", "returned"} => setupDone)
    /\ [](\A l \in Loaders :
            lerr[l] # nil
              => /\ l = lexec /\ lc[l] = conf
                 /\ conf.Mode = fileMode /\ slot = nil)
    /\ [](setupDone =>
            /\ logLevel = AppliedLevel(conf)
            /\ encoding = setupEncoding(conf)
            /\ plainEncodingSep = setupPlainEncodingSep(conf, "\t")
            /\ withColor = conf.WithColor
            /\ timeFormat = setupTimeFormat(conf, "2006-01-02T15:04:05.000Z07:00")
            /\ slot \in AppliedWriters(conf, lexec))
    /\ [][setupDone
            => UNCHANGED <<logLevel, settingVars, slot, setupDone, lexec>>]_vars
    /\ [][\A l \in Loaders :
            (lpc'[l] # lpc[l] /\ setupM \notin {nil, l})
              => UNCHANGED <<logLevel, settingVars, slot>>]_vars

\* The first Load asked for level error, a later Load for level info, and
\* both have returned.
C12_Witness ==
    /\ conf.Level = levelError
    /\ logLevel = ErrorLevel
    /\ \E l \in Loaders :
         /\ l # lexec
         /\ lc[l].Level = levelInfo
         /\ lpc[l] = "returned"
    /\ lpc[lexec] = "returned"

\* The writer the latest assignment to w.writer installed.
LastInstalled == IF hist = <<>> THEN nil ELSE hist[Len(hist)].new

\* The step in which caller t returns from the atomicWriter method op.
Returns(t, op) == rop[t] = op /\ rpc[t] = "unlock" /\ rpc'[t] # "unlock"

\* C13: while no SetWriter, Swap or Close has been called, at most one
\* writer is installed, and every getWriter call returns that writer, which
\* is not nil and is in the slot.  StoreIfNil(v) assigns only to an empty
\* slot, and returns the writer in the slot at its return: v if the slot
\* was empty, the writer it found otherwise.
C13_LazyDefault ==
    /\ [](updates = 0 =>
            /\ Len(hist) <= 1
            /\ \A i \in 1..Len(gw) :
                 gw[i] # nil /\ gw[i] = slot /\ gw[i] = LastInstalled)
    /\ [][\A t \in Callers :
            (rop[t] = "StoreIfNil" /\ rpc[t] = "write" /\ rpc'[t] = "unlock")
              => slot = nil /\ slot' = rarg[t]]_vars
    /\ [][\A t \in Callers :
            Returns(t, "StoreIfNil")
              => /\ rret'[t] = slot
                 /\ rlocal[t] = nil => slot = rarg[t]
                 /\ rlocal[t] # nil => slot = rlocal[t]]_vars

\* Both callers found the slot empty in their first getWriter and called
\* StoreIfNil, and both calls have returned.
C13_Witness ==
    /\ updates = 0
    /\ Len(gw) = 2
    /\ \A t \in Callers : rop[t] = "StoreIfNil" /\ rpc[t] = "idle"

\* No assignment to w.writer was made by Store.
NoStore == \A i \in 1..Len(hist) : hist[i].op # "Store"

\* C14: Load returns the writer that is in the slot when it returns, the
\* one the latest assignment installed.  Swap(v) returns the writer its own
\* assignment replaced, and v is in the slot when it returns.  No writer is
\* returned by two Swap calls; and when only Swap and StoreIfNil have
\* assigned and every call has returned, the writers installed are exactly
\* those the Swap calls returned and the one in the slot.
C14_Linearizable ==
    /\ [](slot = LastInstalled)
    /\ [][\A t \in Callers : Returns(t, "Load") => rret'[t] = slot]_vars
    /\ [][\A t \in Callers :
            Returns(t, "Swap")
              => /\ hist[Len(hist)].by = t
                 /\ rret'[t] = hist[Len(hist)].old
                 /\ slot = rarg[t]]_vars
    /\ [](\A i, j \in 1..Len(swapRet) :
            (i # j /\ swapRet[i] = swapRet[j]) => swapRet[i] = nil)
    /\ []((NoStore /\ \A t \in Callers : rpc[t] = "idle")
            => /\ {hist[i].new : i \in 1..Len(hist)} \ {nil}
                    = (Range(swapRet) \cup {slot}) \ {nil}
               /\ slot \in Range(swapRet) => slot = nil)

\* Both callers have assigned to the slot, two Swap calls have returned, one
\* of them with the writer an earlier call installed, and a Load has
\* returned the writer in the slot.
C14_Witness ==
    /\ Len(swapRet) = 2
    /\ \E i \in 1..2 : swapRet[i] # nil
    /\ \E t \in Callers :
         /\ rcall[t] = "Load" /\ rpc[t] = "idle"
         /\ rret[t] # nil /\ rret[t] = slot
    /\ {hist[i].by : i \in 1..Len(hist)} = Callers

\* C17: a step that changes the slot changes nothing of the sink and no
\* setting; the sink's close sequence is entered only by a caller of Close,
\* for the writer its Swap returned; and until then the detached sink is
\* open: its done signal is not fired, its worker runs, its handle is
\* neither synced nor closed, and every Write to it has succeeded.
C17_DetachOnly ==
    /\ [][slot' # slot => UNCHANGED <<sinkVars, settingVars>>]_vars
    /\ [][\A c \in Closers :
            (cpc[c] = "idle" /\ cpc'[c] # "idle")
              => rcall[c] = "Close" /\ rret[c] = FileWriter]_vars
    /\ []((\A c \in Closers : cpc[c] = "idle")
            => /\ ~done /\ wpc # "exited" /\ waitGroup = 1
               /\ syncCalls = 0 /\ closeCalls = 0
               /\ fallback = <<>>
               /\ \A p \in Producers : wret[p][2] = nil)

\* The file writer was replaced by Swap and by nothing else, nobody has
\* called Close, and a record the producer logged after that has been
\* written to the file.
C17_Witness ==
    /\ detachedAt >= 0
    /\ slot # FileWriter
    /\ FileWriter \in Range(swapRet)
    /\ \A c \in Closers : cpc[c] = "idle"
    /\ Len(file) > detachedAt
    /\ wret["p1"][2] = nil /\ wret["p1"][1] > 0

\* The payload takes the default case of the type switch.
Generic(val) == ~val.isString /\ ~val.isError /\ ~val.isStringer

\* The call's payload has to be serialized and cannot be.
Unserializable(i) ==
    ~i.val.marshals /\ (i.enc # plainEncodingType \/ Generic(i.val))

\* The record the call would hand to a writer that accepts it, as
\* log.Println receives it.
Record(i) ==
    LET e == outputAny(SomeWriter, nil, i.enc, i.color, i.sep, i.level,
                       i.val).written[1]
    IN  IF i.enc = plainEncodingType THEN e ELSE SubSeq(e, 1, Len(e) - 1)

\* C15: an output call whose payload cannot be serialized writes nothing
\* and logs the error; a call with a nil writer and a serializable payload
\* writes nothing and logs the record; and an output call adds what it
\* wrote and logged to the writer and to the log, and touches neither the
\* queue nor the file of the sink.
C15_EncodingFailureSwallowed ==
    /\ []((outputs > 0 /\ Unserializable(encIn))
            => /\ encOut.written = <<>>
               /\ encOut.logged = <<ErrLine(ErrMarshal)>>)
    /\ []((outputs > 0 /\ ~Unserializable(encIn) /\ encIn.w = nil)
            => /\ encOut.written = <<>>
               /\ encOut.logged = <<Record(encIn)>>)
    /\ [][outputs' # outputs
            => /\ outputs' = outputs + 1
               /\ written' = written \o encOut'.written
               /\ fallback' = fallback \o encOut'.logged
               /\ UNCHANGED <<channel, enq, wevent, file>>]_vars

\* Plain encoding was loaded, and a value that is neither a string, an
\* error nor a Stringer and that json cannot marshal was logged to a writer.
C15_Witness ==
    /\ outputs > 0
    /\ setupDone
    /\ encIn.enc = plainEncodingType
    /\ Generic(encIn.val) /\ ~encIn.val.marshals
    /\ encIn.w # nil
    /\ fallback = <<ErrLine(ErrMarshal)>>

\* A plain-mode call that handed a line to its writer.
PlainCase ==
    /\ outputs > 0
    /\ encIn.enc = plainEncodingType
    /\ encIn.w # nil /\ encIn.r = nil
    /\ ~Unserializable(encIn)

\* The message field of the line the call wrote.
WrittenMessage == encOut.written[1][5]

C21_NewFileLoggerSetsLevel ==
    /\ [][(npc = "open" /\ npc' = "returned")
            => /\ nconf = conf
               /\ logLevel' = (IF conf.Level = levelInfo THEN InfoLevel
                               ELSE IF conf.Level = levelError THEN ErrorLevel
                               ELSE nlevel0)]_vars
    /\ [][(npc' # npc /\ npc # "level") => logLevel' = logLevel]_vars

\* Load stored an "info" configuration, SetLevel then raised the threshold
\* to error, and NewFileLogger has returned with the threshold back at info.
C21_Witness ==
    /\ npc = "returned"
    /\ setupDone
    /\ conf.Level = levelInfo
    /\ nlevel0 = ErrorLevel
    /\ logLevel = InfoLevel

\* The function Load ran under setupOnce could not open the log file.
LoadFailed == loadErr = ErrOpen

\* C22: when the first Load fails to open its file, its level, encoding and
\* format settings are in force once it has finished and no step changes
\* them; no loader ever assigns the slot: the only writer installed is the
\* one console writer a caller's getWriter stored into the empty slot, and
\* every getWriter returns it; a Load called afterwards skips the function
\* and returns nil, and a loader other than the executing one returns nil.
C22_FailedLoadConsumesOnce ==
    /\ [](LoadFailed =>
            /\ conf.Mode = fileMode
            /\ Len(hist) <= 1
            /\ \A i \in 1..Len(hist) :
                 hist[i].by \in Callers /\ hist[i].op = "StoreIfNil"
            /\ \A i \in 1..Len(gw) :
                 gw[i] # nil /\ gw[i] = slot /\ gw[i] = hist[1].new
            /\ \A l \in Loaders :
                 (l # lexec /\ lpc[l] \in {"ret", "returned"}) => lerr[l] = nil)
    /\ []((LoadFailed /\ setupDone) =>
            /\ logLevel = AppliedLevel(conf)
            /\ encoding = setupEncoding(conf)
            /\ plainEncodingSep = setupPlainEncodingSep(conf, "\t")
            /\ withColor = conf.WithColor
            /\ timeFormat = setupTimeFormat(conf, "2006-01-02T15:04:05.000Z07:00"))
    /\ [][(LoadFailed /\ setupDone) =>
            /\ UNCHANGED <<logLevel, settingVars, loadErr, lexec, setupDone>>
            /\ \A l \in Loaders :
                 lpc'[l] # lpc[l]
                   => /\ UNCHANGED <<slot, hist>>
                      /\ lpc[l] \in {"idle", "returned"}
                           => lpc'[l] = "ret" /\ lerr'[l] = nil
                      /\ lpc[l] \notin {"idle", "returned"}
                           => lerr'[l] = lerr[l]]_vars

\* The first Load, asking for level error, failed to open its file; a later
\* Load of a file configuration by the other loader has returned nil; and a
\* getWriter has returned the console writer now in the slot.
C22_Witness ==
    /\ LoadFailed
    /\ conf.Level = levelError /\ logLevel = ErrorLevel
    /\ \E l \in Loaders :
         /\ l # lexec
         /\ lc[l] = FileConf
         /\ lpc[l] = "returned"
         /\ lerr[l] = nil
    /\ Len(gw) >= 1
    /\ slot # nil

====
